---- MODULE Spec2Model ----
(***************************************************************************)
(* State-machine model of the baguette tilemap editor (src/src/main.rs):   *)
(* the sparse tile grid, the drag-stroke accumulator, the two bounded      *)
(* undo/redo histories and the save/load codec.  One action per handler    *)
(* of Application::update, each taking one frame's input.                  *)
(***************************************************************************)
EXTENDS Integers, Sequences, FiniteSets, TLC

(***************************************************************************)
(* Bounds of the model.                                                    *)
(***************************************************************************)
\* cells the pointer can hover: x in 0..MaxX, y = 0
MaxX == 1
\* largest row / column count typed into the slicing widgets
MaxRows == 2
MaxColumns == 1
\* frames explored by the wide specification Spec
MaxSteps == 8
\* frames explored by SpecFrames
MaxFrames == 7

(***************************************************************************)
(* Option<T>: None is the empty sequence, Some(x) the one-element one.     *)
(***************************************************************************)
None == << >>
Some(x) == << x >>
IsSome(o) == o # None
Unwrap(o) == o[1]
Option(S) == {None} \cup {Some(x) : x \in S}

(***************************************************************************)
(* f32 coordinates as reduced fractions <<numerator, denominator>>;        *)
(* +inf and -inf are <<1, 0>> and <<-1, 0>>.                               *)
(***************************************************************************)
RECURSIVE GCD(_, _)
GCD(a, b) == IF b = 0 THEN a ELSE GCD(b, a % b)

Frac(n, d) == LET g == GCD(n, d) IN IF g = 0 THEN <<0, 1>> ELSE <<n \div g, d \div g>>

INFINITY == <<1, 0>>
NEG_INFINITY == <<-1, 0>>

\* ui::Rect::NOTHING: min = (+inf, +inf), max = (-inf, -inf)
NOTHING == <<INFINITY, INFINITY, NEG_INFINITY, NEG_INFINITY>>

\* uv of the idx-th image load_images yields: column-major, rows inner
LoadImageUv(idx, rows, columns) ==
    LET column == idx \div rows
        row    == idx % rows
    IN  << Frac(row, rows), Frac(column, columns),
           Frac(row + 1, rows), Frac(column + 1, columns) >>

(***************************************************************************)
(* TilePos and the input domains.                                          *)
(***************************************************************************)
TilePos == {[x |-> i, y |-> 0] : i \in 0..MaxX}
PngPaths == {"sheet.png"}
BagPaths == {"map.bag"}

(***************************************************************************)
(* IndexMap<TilePos, Rect>: a sequence of <<key, value>> pairs in          *)
(* insertion order, keys unique.                                           *)
(***************************************************************************)
IMKeys(m) == {m[i][1] : i \in 1..Len(m)}
IMIndex(m, k) == CHOOSE i \in 1..Len(m) : m[i][1] = k
IMGet(m, k) == IF k \in IMKeys(m) THEN Some(m[IMIndex(m, k)][2]) ELSE None
\* insert: replace the value in place, or append a new pair
IMInsert(m, k, v) ==
    IF k \in IMKeys(m) THEN [m EXCEPT ![IMIndex(m, k)] = <<k, v>>]
    ELSE Append(m, <<k, v>>)
\* remove (= swap_remove): the last pair takes the removed pair's place
IMRemove(m, k) ==
    IF k \notin IMKeys(m) THEN m
    ELSE LET i == IMIndex(m, k)
             n == Len(m)
         IN  SubSeq(m, 1, i - 1)
               \o (IF i < n THEN <<m[n]>> ELSE << >>)
               \o SubSeq(m, i + 1, n - 1)
\* the mapping an IndexMap denotes, order forgotten
AsMap(m) == [k \in IMKeys(m) |-> Unwrap(IMGet(m, k))]

(***************************************************************************)
(* TilesHistory(VecDeque<Tiles>, u16): the oldest diff first.              *)
(***************************************************************************)
\* TilesHistory::new: the capacity every history is built with
Capacity == 5

\* mutants of add: no eviction at all; eviction of the newest entry
HistoryAddUnbounded(h, diff) == Append(h, diff)
HistoryAddDropNewest(h, diff) ==
    Append(IF Len(h) >= Capacity THEN SubSeq(h, 1, Len(h) - 1) ELSE h, diff)

\* mutant: a push onto a full history empties it first
HistoryAddEvictsAll(h, diff) == IF Len(h) >= Capacity THEN << diff >> ELSE Append(h, diff)

\* add: pop_front once the capacity is reached, then push_back
HistoryAdd(h, diff) ==
    Append(IF Len(h) >= Capacity THEN Tail(h) ELSE h, diff)

\* mutant: popping an empty history yields an empty diff
HistoryPopEmptyDiff(h) == IF h = << >> THEN Some(<< >>) ELSE Some(h[Len(h)])

\* pop: pop_back, None on an empty deque
HistoryPop(h) == IF Len(h) = 0 THEN None ELSE Some(h[Len(h)])
HistoryPopped(h) == IF Len(h) = 0 THEN h ELSE SubSeq(h, 1, Len(h) - 1)
\* mutant: clear leaves the deque as it is
HistoryClearKeeps(h) == h

HistoryClear(h) == << >>

(***************************************************************************)
(* The replay loop shared by undo and redo (check_input): every pair of    *)
(* the popped diff is applied to the grid in order (NOTHING removes, any   *)
(* other value inserts) and the value it replaces is gathered into the     *)
(* complementary diff.  Result: <<grid, complementary diff>>.              *)
(***************************************************************************)
OrNothing(o) == IF IsSome(o) THEN Unwrap(o) ELSE NOTHING

\* mutant: the complementary diff gathers the value written, not the one replaced
ReplayStepKeepsNew(acc, pair) ==
    LET pos == pair[1]
        uv  == pair[2]
    IN  << IF uv = NOTHING THEN IMRemove(acc[1], pos) ELSE IMInsert(acc[1], pos, uv),
           IMInsert(acc[2], pos, uv) >>

\* mutant: nothing is gathered for a position the grid holds no value for
ReplayStepSkipsAbsent(acc, pair) ==
    LET pos == pair[1]
        uv  == pair[2]
    IN  << IF uv = NOTHING THEN IMRemove(acc[1], pos) ELSE IMInsert(acc[1], pos, uv),
           IF IsSome(IMGet(acc[1], pos))
           THEN IMInsert(acc[2], pos, Unwrap(IMGet(acc[1], pos))) ELSE acc[2] >>

\* mutant: the sentinel is written into the grid like any other value
ReplayStepInsertsSentinel(acc, pair) ==
    LET pos == pair[1]
        uv  == pair[2]
        old == OrNothing(IMGet(acc[1], pos))
    IN  << IMInsert(acc[1], pos, uv), IMInsert(acc[2], pos, old) >>

ReplayStep(acc, pair) ==
    LET pos == pair[1]
        uv  == pair[2]
        old == OrNothing(IMGet(acc[1], pos))
    IN  << IF uv = NOTHING THEN IMRemove(acc[1], pos) ELSE IMInsert(acc[1], pos, uv),
           IMInsert(acc[2], pos, old) >>

RECURSIVE ReplayFrom(_, _, _)
ReplayFrom(acc, diff, i) ==
    IF i > Len(diff) THEN acc ELSE ReplayFrom(ReplayStep(acc, diff[i]), diff, i + 1)

Replay(grid, diff) == ReplayFrom(<<grid, << >> >>, diff, 1)

(***************************************************************************)
(* SavedData and its bincode form.  A file is the sequence of the scalar   *)
(* fields bincode writes, in declaration order: the path, rows, columns,   *)
(* the length of the tile vector, then x, y and the four uv coordinates    *)
(* of every tile.                                                          *)
(***************************************************************************)
EncodeTile(t) == << t[1].x, t[1].y, t[2][1], t[2][2], t[2][3], t[2][4] >>

RECURSIVE EncodeTiles(_)
EncodeTiles(ts) ==
    IF ts = << >> THEN << >> ELSE EncodeTile(Head(ts)) \o EncodeTiles(Tail(ts))

Serialize(data) ==
    << data.sprite_sheet.path, data.sprite_sheet.rows, data.sprite_sheet.columns,
       Len(data.tiles) >> \o EncodeTiles(data.tiles)

\* mutant: the two coordinates of a position are read back in the wrong order
DecodeTileSwapped(buf, at) ==
    << [x |-> buf[at + 2], y |-> buf[at + 1]],
       << buf[at + 3], buf[at + 4], buf[at + 5], buf[at + 6] >> >>

DecodeTile(buf, at) ==
    << [x |-> buf[at + 1], y |-> buf[at + 2]],
       << buf[at + 3], buf[at + 4], buf[at + 5], buf[at + 6] >> >>

RECURSIVE DecodeTiles(_, _, _)
DecodeTiles(buf, at, n) ==
    IF n = 0 THEN << >>
    ELSE << DecodeTile(buf, at) >> \o DecodeTiles(buf, at + 6, n - 1)

\* deserialize: None stands for Err (the input ends before the value does)
Deserialize(buf) ==
    IF Len(buf) < 4 THEN None
    ELSE IF Len(buf) < 4 + 6 * buf[4] THEN None
    ELSE Some([ sprite_sheet |-> [path |-> buf[1], rows |-> buf[2], columns |-> buf[3]],
                tiles |-> DecodeTiles(buf, 4, buf[4]) ])

\* load_workspace's loop: the decoded pairs are inserted one by one
RECURSIVE InsertAll(_, _)
InsertAll(m, ts) ==
    IF ts = << >> THEN m ELSE InsertAll(IMInsert(m, Head(ts)[1], Head(ts)[2]), Tail(ts))

(***************************************************************************)
(* State.  The history variables record what the claims speak about and    *)
(* are read by no action.                                                  *)
(***************************************************************************)
VARIABLES
    sprite_sheet,     \* Option<SpriteSheet>
    workspace_path,   \* Option<PathBuf>
    selected_tile,    \* Option<(usize, Rect)>
    dragging,         \* Option<Tiles>: the diff of the stroke in progress
    tiles,            \* Tiles: the grid
    undos,            \* TilesHistory
    redos,            \* TilesHistory
    disk,             \* the .bag files: path -> Option<file contents>
    panicked,         \* the process died in a panic
    ret,              \* what the last save_workspace / load_workspace returned
    effects,          \* history: the dialog and file calls that call made
    last,             \* history: the last action that changed grid, stroke or histories
    last_hist,        \* history: the last of stroke commit, reset, undo, redo, load
    snap,             \* history: the grid before the last stroke begin, undo or reset
    clean,            \* history: only touches and the release since the last stroke begin
    run,              \* history: the grids before each stroke of the current run of strokes
    undone,           \* history: undos performed since that run
    undo_since_begin, \* history: an undo took effect after the last stroke begin or load
    undo_since_edit,  \* history: ... after the last stroke begin, reset or load
    saved,            \* history: path -> the data of the last complete save to it
    steps,            \* frames that changed something (bounds Spec only)
    input             \* history: the input of the last frame (kept under SpecFrames only)

pvars == << sprite_sheet, workspace_path, selected_tile, dragging, tiles, undos,
            redos, disk, panicked, ret >>
hvars == << effects, last, last_hist, snap, clean, run, undone, undo_since_begin,
            undo_since_edit, saved >>
vars == << sprite_sheet, workspace_path, selected_tile, dragging, tiles, undos,
           redos, disk, panicked, ret, effects, last, last_hist, snap, clean, run,
           undone, undo_since_begin, undo_since_edit, saved, steps, input >>

\* Application::new, on a directory without .bag files
Init ==
    /\ sprite_sheet = None
    /\ workspace_path = None
    /\ selected_tile = None
    /\ dragging = None
    /\ tiles = << >>
    /\ undos = << >>
    /\ redos = << >>
    /\ disk = [p \in BagPaths |-> None]
    /\ panicked = FALSE
    /\ ret = "none"
    /\ effects = {}
    /\ last = "new"
    /\ last_hist = "new"
    /\ snap = << >>
    /\ clean = FALSE
    /\ run = << >>
    /\ undone = 0
    /\ undo_since_begin = FALSE
    /\ undo_since_edit = FALSE
    /\ saved = [p \in BagPaths |-> None]
    /\ steps = 0
    /\ input = << >>

\* the history variables of strokes and histories
edits == << last, last_hist, snap, clean, run, undone, undo_since_begin, undo_since_edit >>

(***************************************************************************)
(* top_panel: the "new", "open saved" and "clear" buttons.                 *)
(***************************************************************************)
\* select_spritesheet; pick is what the file dialog returns
SelectSpritesheet(pick) ==
    /\ ~panicked
    /\ IF IsSome(pick)
       THEN /\ sprite_sheet' = Some([path |-> Unwrap(pick), rows |-> 1, columns |-> 1])
            /\ workspace_path' = None
       ELSE UNCHANGED << sprite_sheet, workspace_path >>
    /\ UNCHANGED << selected_tile, dragging, tiles, undos, redos, disk, panicked, ret >>
    /\ UNCHANGED << effects, edits, saved >>

\* mutant: the old document is dropped before the new one is decoded
LoadFailedCleared(err, calls) ==
    /\ ret' = err
    /\ effects' = calls
    /\ tiles' = << >>
    /\ undos' = HistoryClear(undos)
    /\ redos' = HistoryClear(redos)
    /\ UNCHANGED << sprite_sheet, workspace_path, edits >>

\* the early returns of load_workspace: Err(err) after the calls made so far
LoadFailed(err, calls) ==
    /\ ret' = err
    /\ effects' = calls
    /\ UNCHANGED << sprite_sheet, workspace_path, tiles, undos, redos, edits >>

\* load_workspace; pick is what the file dialog returns, io how the file
\* calls end ("ok", "open_fail", "read_fail"); a missing file fails to open
LoadWorkspace(pick, io) ==
    /\ ~panicked
    /\ UNCHANGED << selected_tile, dragging, disk, panicked, saved >>
    /\ IF pick = None
       THEN LoadFailed("invalid path", {"dialog"})
       ELSE IF io = "open_fail" \/ disk[Unwrap(pick)] = None
       THEN LoadFailed("io", {"dialog", "open"})
       ELSE IF io = "read_fail"
       THEN LoadFailed("io", {"dialog", "open", "read"})
       ELSE LET doc == Deserialize(Unwrap(disk[Unwrap(pick)]))
            IN  IF doc = None
                THEN LoadFailed("decode", {"dialog", "open", "read"})
                ELSE /\ tiles' = InsertAll(<< >>, Unwrap(doc).tiles)
                     /\ undos' = HistoryClear(undos)
                     /\ redos' = HistoryClear(redos)
                     /\ sprite_sheet' = Some(Unwrap(doc).sprite_sheet)
                     /\ workspace_path' = pick
                     /\ ret' = "ok"
                     /\ effects' = {"dialog", "open", "read"}
                     /\ last' = "load"
                     /\ last_hist' = "load"
                     /\ clean' = FALSE
                     /\ run' = << >>
                     /\ undone' = 0
                     /\ undo_since_begin' = FALSE
                     /\ undo_since_edit' = FALSE
                     /\ UNCHANGED snap

\* mutant: the "clear" button records the first cell of the grid only
ResetPushesFirst ==
    /\ ~panicked
    /\ UNCHANGED << sprite_sheet, workspace_path, selected_tile, dragging, redos,
                    disk, panicked, ret, effects, saved >>
    /\ IF tiles # << >>
       THEN /\ tiles' = << >>
            /\ undos' = HistoryAdd(undos, SubSeq(tiles, 1, 1))
            /\ last' = "reset"
            /\ last_hist' = "reset"
            /\ snap' = AsMap(tiles)
            /\ clean' = FALSE
            /\ run' = << >>
            /\ undone' = 0
            /\ undo_since_edit' = FALSE
            /\ UNCHANGED undo_since_begin
       ELSE UNCHANGED << tiles, undos, edits >>

\* the "clear" button
Reset ==
    /\ ~panicked
    /\ UNCHANGED << sprite_sheet, workspace_path, selected_tile, dragging, redos,
                    disk, panicked, ret, effects, saved >>
    /\ IF tiles # << >>
       THEN /\ tiles' = << >>
            /\ undos' = HistoryAdd(undos, tiles)
            /\ last' = "reset"
            /\ last_hist' = "reset"
            /\ snap' = AsMap(tiles)
            /\ clean' = FALSE
            /\ run' = << >>
            /\ undone' = 0
            /\ undo_since_edit' = FALSE
            /\ UNCHANGED undo_since_begin
       ELSE UNCHANGED << tiles, undos, edits >>

(***************************************************************************)
(* bottom_panel: the slicing widgets and the tile buttons, shown once a    *)
(* spritesheet is chosen.                                                  *)
(***************************************************************************)
SetRows(n) ==
    /\ ~panicked
    /\ IsSome(sprite_sheet)
    /\ sprite_sheet' = Some([Unwrap(sprite_sheet) EXCEPT !.rows = n])
    /\ UNCHANGED << workspace_path, selected_tile, dragging, tiles, undos, redos,
                    disk, panicked, ret >>
    /\ UNCHANGED << effects, edits, saved >>

SetColumns(n) ==
    /\ ~panicked
    /\ IsSome(sprite_sheet)
    /\ sprite_sheet' = Some([Unwrap(sprite_sheet) EXCEPT !.columns = n])
    /\ UNCHANGED << workspace_path, selected_tile, dragging, tiles, undos, redos,
                    disk, panicked, ret >>
    /\ UNCHANGED << effects, edits, saved >>

\* a click on the idx-th tile button
SelectTile(idx) ==
    /\ ~panicked
    /\ IsSome(sprite_sheet)
    /\ idx < Unwrap(sprite_sheet).rows * Unwrap(sprite_sheet).columns
    /\ selected_tile' = Some(<< idx, LoadImageUv(idx, Unwrap(sprite_sheet).rows,
                                                  Unwrap(sprite_sheet).columns) >>)
    /\ UNCHANGED << sprite_sheet, workspace_path, dragging, tiles, undos, redos,
                    disk, panicked, ret >>
    /\ UNCHANGED << effects, edits, saved >>

(***************************************************************************)
(* editor_grid: one frame of pointer input over the plot.  hover is the    *)
(* cell under the pointer (None off the plot), ev the drag event of the    *)
(* primary button: "started", "released" or "none".                        *)
(***************************************************************************)
\* mutant: a cell touched again records the value painted earlier in the stroke
TouchCellRerecords(drag, grid, pos, uv) ==
    << IMInsert(drag, pos, OrNothing(IMGet(grid, pos))), IMInsert(grid, pos, uv) >>

\* mutant: nothing is recorded for a cell that was empty
TouchCellSkipsEmpty(drag, grid, pos, uv) ==
    IF IMGet(drag, pos) = None
    THEN << IF IsSome(IMGet(grid, pos))
            THEN IMInsert(drag, pos, Unwrap(IMGet(grid, pos))) ELSE drag,
            IMInsert(grid, pos, uv) >>
    ELSE << drag, grid >>

\* the body of `if let Some(ref mut current_edit_tiles) = self.dragging`:
\* <<diff in progress, grid>> after the pointer is over pos
TouchCell(drag, grid, pos, uv) ==
    IF IMGet(drag, pos) = None
    THEN << IMInsert(drag, pos, OrNothing(IMGet(grid, pos))), IMInsert(grid, pos, uv) >>
    ELSE << drag, grid >>

LastRun(r) == IF Len(r) > Capacity + 1 THEN Tail(r) ELSE r

\* mutant: a drag start begins a stroke before the selected tile is looked at
EditorGridStartsUnselected(hover, ev) ==
    /\ ~panicked
    /\ UNCHANGED << sprite_sheet, workspace_path, selected_tile, disk, ret, effects, saved >>
    /\ IF hover = None
       THEN \* no hover position: none of the stroke code runs
            UNCHANGED << dragging, tiles, undos, redos, panicked, edits >>
       ELSE IF selected_tile = None
       THEN /\ dragging' = IF ev = "started" THEN Some(<< >>) ELSE dragging
            /\ UNCHANGED << tiles, undos, redos, panicked, edits >>
       ELSE IF ev = "released" /\ dragging = None
       THEN \* self.dragging.take().unwrap() on None
            /\ panicked' = TRUE
            /\ UNCHANGED << dragging, tiles, undos, redos, edits >>
       ELSE LET uv == Unwrap(selected_tile)[2]
                drag1 == IF ev = "started" THEN Some(<< >>)
                         ELSE IF ev = "released" THEN None
                         ELSE dragging
                touched == IF IsSome(drag1)
                           THEN TouchCell(Unwrap(drag1), tiles, Unwrap(hover), uv)
                           ELSE << << >>, tiles >>
            IN  /\ redos' = IF ev = "started" THEN HistoryClear(redos) ELSE redos
                /\ undos' = IF ev = "released"
                            THEN HistoryAdd(undos, Unwrap(dragging)) ELSE undos
                /\ dragging' = IF IsSome(drag1) THEN Some(touched[1]) ELSE None
                /\ tiles' = touched[2]
                /\ UNCHANGED panicked
                /\ IF ev = "started"
                   THEN /\ last' = "begin"
                        /\ UNCHANGED last_hist
                        /\ snap' = AsMap(tiles)
                        /\ clean' = TRUE
                        /\ run' = IF dragging = None /\ undone = 0 THEN run ELSE << >>
                        /\ undone' = 0
                        /\ undo_since_begin' = FALSE
                        /\ undo_since_edit' = FALSE
                   ELSE IF ev = "released"
                   THEN /\ last' = "commit"
                        /\ last_hist' = "commit"
                        /\ run' = IF clean /\ undone = 0
                                  THEN LastRun(Append(run, snap)) ELSE << >>
                        /\ undone' = 0
                        /\ UNCHANGED << snap, clean, undo_since_begin, undo_since_edit >>
                   ELSE /\ last' = IF tiles' # tiles THEN "touch" ELSE last
                        /\ UNCHANGED << last_hist, snap, clean, run, undone,
                                        undo_since_begin, undo_since_edit >>

EditorGrid(hover, ev) ==
    /\ ~panicked
    /\ UNCHANGED << sprite_sheet, workspace_path, selected_tile, disk, ret, effects, saved >>
    /\ IF hover = None
       THEN \* no hover position: none of the stroke code runs
            UNCHANGED << dragging, tiles, undos, redos, panicked, edits >>
       ELSE IF selected_tile = None
       THEN \* no tile selected: return
            UNCHANGED << dragging, tiles, undos, redos, panicked, edits >>
       ELSE IF ev = "released" /\ dragging = None
       THEN \* self.dragging.take().unwrap() on None
            /\ panicked' = TRUE
            /\ UNCHANGED << dragging, tiles, undos, redos, edits >>
       ELSE LET uv == Unwrap(selected_tile)[2]
                drag1 == IF ev = "started" THEN Some(<< >>)
                         ELSE IF ev = "released" THEN None
                         ELSE dragging
                touched == IF IsSome(drag1)
                           THEN TouchCell(Unwrap(drag1), tiles, Unwrap(hover), uv)
                           ELSE << << >>, tiles >>
            IN  /\ redos' = IF ev = "started" THEN HistoryClear(redos) ELSE redos
                /\ undos' = IF ev = "released"
                            THEN HistoryAdd(undos, Unwrap(dragging)) ELSE undos
                /\ dragging' = IF IsSome(drag1) THEN Some(touched[1]) ELSE None
                /\ tiles' = touched[2]
                /\ UNCHANGED panicked
                /\ IF ev = "started"
                   THEN /\ last' = "begin"
                        /\ UNCHANGED last_hist
                        /\ snap' = AsMap(tiles)
                        /\ clean' = TRUE
                        /\ run' = IF dragging = None /\ undone = 0 THEN run ELSE << >>
                        /\ undone' = 0
                        /\ undo_since_begin' = FALSE
                        /\ undo_since_edit' = FALSE
                   ELSE IF ev = "released"
                   THEN /\ last' = "commit"
                        /\ last_hist' = "commit"
                        /\ run' = IF clean /\ undone = 0
                                  THEN LastRun(Append(run, snap)) ELSE << >>
                        /\ undone' = 0
                        /\ UNCHANGED << snap, clean, undo_since_begin, undo_since_edit >>
                   ELSE /\ last' = IF tiles' # tiles THEN "touch" ELSE last
                        /\ UNCHANGED << last_hist, snap, clean, run, undone,
                                        undo_since_begin, undo_since_edit >>

(***************************************************************************)
(* check_input: the undo, redo and save key chords.                        *)
(***************************************************************************)
\* Ctrl+Z
Undo ==
    /\ ~panicked
    /\ UNCHANGED << sprite_sheet, workspace_path, selected_tile, dragging, disk,
                    panicked, ret, effects, saved >>
    /\ IF HistoryPop(undos) = None
       THEN UNCHANGED << tiles, undos, redos, edits >>
       ELSE LET replayed == Replay(tiles, Unwrap(HistoryPop(undos)))
            IN  /\ undos' = HistoryPopped(undos)
                /\ tiles' = replayed[1]
                /\ redos' = HistoryAdd(redos, replayed[2])
                /\ last' = "undo"
                /\ last_hist' = "undo"
                /\ snap' = AsMap(tiles)
                /\ undone' = IF dragging = None /\ run # << >> THEN undone + 1 ELSE 0
                /\ run' = IF dragging = None THEN run ELSE << >>
                /\ clean' = (clean /\ dragging = None)
                /\ undo_since_begin' = TRUE
                /\ undo_since_edit' = TRUE

\* Ctrl+Shift+Z
Redo ==
    /\ ~panicked
    /\ UNCHANGED << sprite_sheet, workspace_path, selected_tile, dragging, disk,
                    panicked, ret, effects, saved >>
    /\ IF HistoryPop(redos) = None
       THEN UNCHANGED << tiles, undos, redos, edits >>
       ELSE LET replayed == Replay(tiles, Unwrap(HistoryPop(redos)))
            IN  /\ redos' = HistoryPopped(redos)
                /\ tiles' = replayed[1]
                /\ undos' = HistoryAdd(undos, replayed[2])
                /\ last' = "redo"
                /\ last_hist' = "redo"
                /\ clean' = FALSE
                /\ run' = << >>
                /\ undone' = 0
                /\ UNCHANGED << snap, undo_since_begin, undo_since_edit >>

\* mutant: the save dialog is opened before the spritesheet is looked at
NoSpritesheetAfterDialog(pick) ==
    /\ ret' = "no spritesheet chosen yre"
    /\ effects' = IF workspace_path = None THEN {"dialog"} ELSE {}
    /\ workspace_path' = IF workspace_path = None THEN pick ELSE workspace_path
    /\ UNCHANGED << disk, saved >>

\* the first match of save_workspace: Err before anything else is done
NoSpritesheet(pick) ==
    /\ ret' = "no spritesheet chosen yre"
    /\ effects' = {}
    /\ UNCHANGED << workspace_path, disk, saved >>

\* Ctrl+S -> save_workspace; pick is what the save dialog returns when it is
\* opened, io how the file calls end ("ok", "create_fail", "serialize_fail",
\* "write_fail"), cut the length of the prefix a failed write leaves behind
SaveWorkspace(pick, io, cut) ==
    /\ ~panicked
    /\ UNCHANGED << sprite_sheet, selected_tile, dragging, tiles, undos, redos,
                    panicked, edits >>
    /\ IF sprite_sheet = None
       THEN NoSpritesheet(pick)
       ELSE LET data == [sprite_sheet |-> Unwrap(sprite_sheet), tiles |-> tiles]
                asked == IF workspace_path = None THEN {"dialog"} ELSE {}
                path == IF workspace_path = None THEN pick ELSE workspace_path
                bytes == Serialize(data)
            IN  IF path = None
                THEN /\ ret' = "failed to crate save file"
                     /\ effects' = asked
                     /\ UNCHANGED << workspace_path, disk, saved >>
                ELSE /\ workspace_path' = path
                     /\ IF io = "create_fail"
                        THEN /\ ret' = "io"
                             /\ effects' = asked \cup {"create"}
                             /\ UNCHANGED << disk, saved >>
                        ELSE IF io = "serialize_fail"
                        THEN /\ ret' = "serialize"
                             /\ effects' = asked \cup {"create"}
                             /\ disk' = [disk EXCEPT ![Unwrap(path)] = Some(<< >>)]
                             /\ saved' = [saved EXCEPT ![Unwrap(path)] = None]
                        ELSE IF io = "write_fail"
                        THEN /\ cut < Len(bytes)
                             /\ ret' = "io"
                             /\ effects' = asked \cup {"create", "write"}
                             /\ disk' = [disk EXCEPT ![Unwrap(path)] =
                                                        Some(SubSeq(bytes, 1, cut))]
                             /\ saved' = [saved EXCEPT ![Unwrap(path)] = None]
                        ELSE /\ ret' = "ok"
                             /\ effects' = asked \cup {"create", "write"}
                             /\ disk' = [disk EXCEPT ![Unwrap(path)] = Some(bytes)]
                             /\ saved' = [saved EXCEPT ![Unwrap(path)] =
                                   Some([sprite_sheet |-> data.sprite_sheet,
                                         tiles |-> AsMap(tiles)])]

(***************************************************************************)
(* The specifications.  Every step is one frame of Application::update     *)
(* with a single input; a frame that changes nothing is a stuttering step. *)
(***************************************************************************)
Events == {"none", "started", "released"}
LoadOutcomes == {"ok", "open_fail", "read_fail"}
SaveOutcomes == {"ok", "create_fail", "serialize_fail", "write_fail"}
\* lengths of the prefix a failed write may leave: nothing, part of the
\* header, the header, the header and all but the last field of one tile
Cuts == {0, 1, 4, 9}

Tick ==
    /\ steps < MaxSteps
    /\ steps' = IF << pvars, hvars >>' = << pvars, hvars >> THEN steps ELSE steps + 1
    /\ UNCHANGED input

Next ==
    \/ \E pick \in Option(PngPaths) : SelectSpritesheet(pick) /\ Tick
    \/ \E pick \in Option(BagPaths), io \in LoadOutcomes : LoadWorkspace(pick, io) /\ Tick
    \/ Reset /\ Tick
    \/ \E n \in 0..MaxRows : SetRows(n) /\ Tick
    \/ \E n \in 0..MaxColumns : SetColumns(n) /\ Tick
    \/ \E idx \in 0..(MaxRows * MaxColumns - 1) : SelectTile(idx) /\ Tick
    \/ \E hover \in Option(TilePos), ev \in Events : EditorGrid(hover, ev) /\ Tick
    \/ Undo /\ Tick
    \/ Redo /\ Tick
    \/ \E pick \in Option(BagPaths), io \in SaveOutcomes, cut \in Cuts :
           SaveWorkspace(pick, io, cut) /\ Tick

Spec == Init /\ [][Next]_vars

\* cells stroked under SpecOps: x in 0..OpsMaxX, y = 0
OpsMaxX == 0
OpsTilePos == {[x |-> i, y |-> 0] : i \in 0..OpsMaxX}

\* Whole operations only, to any depth, on the cells of OpsTilePos and with
\* the sheet unsliced: strokes begun and released over the plot, key chords
\* and buttons between strokes, dialogs answered and file calls succeeding.
Idle == dragging = None

NextOps ==
    \/ \E pick \in PngPaths : SelectSpritesheet(Some(pick)) /\ UNCHANGED << steps, input >>
    \/ \E idx \in 0..(MaxRows * MaxColumns - 1) : SelectTile(idx) /\ UNCHANGED << steps, input >>
    \/ \E hover \in OpsTilePos, ev \in Events :
           /\ IsSome(selected_tile)
           /\ (ev = "started") => Idle
           /\ (ev = "released") => ~Idle
           /\ EditorGrid(Some(hover), ev)
           /\ UNCHANGED << steps, input >>
    \/ Idle /\ Undo /\ UNCHANGED << steps, input >>
    \/ Idle /\ Redo /\ UNCHANGED << steps, input >>
    \/ Idle /\ Reset /\ UNCHANGED << steps, input >>
    \/ \E pick \in BagPaths : Idle /\ LoadWorkspace(Some(pick), "ok") /\ UNCHANGED << steps, input >>
    \/ \E pick \in BagPaths : Idle /\ SaveWorkspace(Some(pick), "ok", 0) /\ UNCHANGED << steps, input >>

SpecOps == Init /\ [][NextOps]_vars

\* Whole strokes on the cells of OpsTilePos with any tile of a sheet sliced
\* in up to MaxRows rows, and undos between the strokes, to any depth.
NextStrokes ==
    \/ \E pick \in PngPaths : SelectSpritesheet(Some(pick)) /\ UNCHANGED << steps, input >>
    \/ \E n \in 1..MaxRows : SetRows(n) /\ UNCHANGED << steps, input >>
    \/ \E idx \in 0..(MaxRows * MaxColumns - 1) : SelectTile(idx) /\ UNCHANGED << steps, input >>
    \/ \E hover \in OpsTilePos, ev \in Events :
           /\ IsSome(selected_tile)
           /\ (ev = "started") => Idle
           /\ (ev = "released") => ~Idle
           /\ EditorGrid(Some(hover), ev)
           /\ UNCHANGED << steps, input >>
    \/ Idle /\ Undo /\ UNCHANGED << steps, input >>

SpecStrokes == Init /\ [][NextStrokes]_vars

\* Every frame counted and its input kept, whether or not it changed
\* anything, MaxFrames frames deep.
Frame(in) ==
    /\ steps < MaxFrames
    /\ steps' = steps + 1
    /\ input' = in

NextFrames ==
    \/ \E pick \in Option(PngPaths) : SelectSpritesheet(pick) /\ Frame(<< "new", pick >>)
    \/ \E pick \in Option(BagPaths), io \in LoadOutcomes :
           LoadWorkspace(pick, io) /\ Frame(<< "open saved", pick, io >>)
    \/ Reset /\ Frame(<< "clear" >>)
    \/ \E n \in 0..MaxRows : SetRows(n) /\ Frame(<< "row", n >>)
    \/ \E n \in 0..MaxColumns : SetColumns(n) /\ Frame(<< "columns", n >>)
    \/ \E idx \in 0..(MaxRows * MaxColumns - 1) : SelectTile(idx) /\ Frame(<< "tile", idx >>)
    \/ \E hover \in Option(TilePos), ev \in Events :
           EditorGrid(hover, ev) /\ Frame(<< "pointer", hover, ev >>)
    \/ Undo /\ Frame(<< "Ctrl+Z" >>)
    \/ Redo /\ Frame(<< "Ctrl+Shift+Z" >>)
    \/ \E pick \in Option(BagPaths), io \in SaveOutcomes :
           SaveWorkspace(pick, io, 0) /\ Frame(<< "Ctrl+S", pick, io >>)

SpecFrames == Init /\ [][NextFrames]_vars

\* this step is a frame of SpecFrames whose input is of the given kind
FrameOf(kind) ==
    /\ steps' = steps + 1
    /\ input' # << >>
    /\ input'[1] = kind

\* TilesHistory on its own: add, pop and clear called in any order on the
\* undo stack of a new Application, with diffs of one cell.  input keeps the
\* call, what it returned and the stack it was made on.
Diffs == {<< << pos, uv >> >> : pos \in TilePos, uv \in {NOTHING, LoadImageUv(0, 1, 1)}}

Called(call) ==
    /\ input' = call
    /\ UNCHANGED << sprite_sheet, workspace_path, selected_tile, dragging, tiles, redos,
                    disk, panicked, ret, effects, edits, saved, steps >>

NextHistory ==
    \/ \E diff \in Diffs :
           /\ undos' = HistoryAdd(undos, diff)
           /\ Called(<< "add", diff, undos >>)
    \/ /\ undos' = HistoryPopped(undos)
       /\ Called(<< "pop", HistoryPop(undos), undos >>)
    \/ /\ undos' = HistoryClear(undos)
       /\ Called(<< "clear", None, undos >>)

SpecHistory == Init /\ [][NextHistory]_vars

(***************************************************************************)
(* Claims.                                                                 *)
(***************************************************************************)
\* the value the grid of snap holds at pos, NOTHING where it holds none
Baseline(pos) == IF pos \in DOMAIN snap THEN snap[pos] ELSE NOTHING

\* C1: a stroke is begun, touches cells and is released with nothing else in
\* between; the undo that follows its commit leaves the grid with exactly
\* the keys and values it had when the stroke began.
C1_UndoRestoresPreStrokeGrid ==
    [][(last = "commit" /\ clean /\ last' = "undo") => AsMap(tiles') = snap]_vars

\* C1 witness: the undo of a stroke that overwrote one cell and added another
\* has just brought back the one-cell grid.
C1_Witness ==
    /\ last = "undo"
    /\ undone = 1
    /\ Len(tiles) = 1
    /\ Len(redos) = 1
    /\ Len(redos[1]) = 2

\* C2: an undo that takes effect, followed at once by a redo, leaves the grid
\* with exactly the keys and values it had before the undo.
C2_UndoRedoRoundTrip ==
    [][(last = "undo" /\ last' = "redo") => AsMap(tiles') = snap]_vars

\* C2 witness: a redo has just put back a painted cell that the undo before
\* it had removed.
C2_Witness ==
    /\ last = "redo"
    /\ tiles # << >>
    /\ AsMap(tiles) = snap
    /\ Len(undos) = 1
    /\ undos[1][1][2] = NOTHING

\* C3: whatever strokes, undos, redos, resets and loads have been performed,
\* the undo stack holds at most 5 diffs and the redo stack holds at most 5.
C3_StacksAtMostCapacity ==
    /\ Len(undos) <= Capacity
    /\ Len(redos) <= Capacity

\* C3 witness: a sixth stroke in a row has been committed and the undo stack
\* holds five diffs.
C3_Witness ==
    /\ Len(run) = Capacity + 1
    /\ Len(undos) = Capacity
    /\ last = "commit"

\* C4: from a stroke begin or a reset until the next undo that takes effect,
\* the redo stack is empty, so that a redo changes nothing.
C4_EditsClearRedo ==
    ~undo_since_edit => redos = << >>

C6_OnlyFiveStrokesReversible ==
    /\ [](
          (Len(run) = Capacity + 1 /\ undone \in 1..Capacity)
              => /\ AsMap(tiles) = run[Len(run) + 1 - undone]
                 /\ Len(undos) = Capacity - undone)
    /\ [][(Len(run) = Capacity + 1 /\ undone = Capacity /\ Undo)
              => UNCHANGED << tiles, undos, redos >>]_vars

\* C6 witness: six strokes that each changed the grid, then five undos; the
\* grid is the one the first stroke left and the undo stack is empty.
C6_Witness ==
    /\ Len(run) = Capacity + 1
    /\ undone = Capacity
    /\ undos = << >>
    /\ \A i \in 1..Capacity : run[i] # run[i + 1]
    /\ run[1] = << >>
    /\ AsMap(tiles) = run[2]

\* C7: while a stroke is in progress, every entry of its diff holds the value
\* the grid had for that cell when the stroke began, the sentinel where the
\* cell was absent, however often the cell has been touched since.
C7_DiffHoldsPreStrokeValues ==
    (IsSome(dragging) /\ clean)
        => \A i \in 1..Len(Unwrap(dragging)) :
               Unwrap(dragging)[i][2] = Baseline(Unwrap(dragging)[i][1])

\* C7 witness: a stroke in progress has touched a painted cell and an empty
\* one; the painted cell's entry holds a tile other than the one now in the grid.
C7_Witness ==
    /\ IsSome(dragging)
    /\ clean
    /\ Len(Unwrap(dragging)) = 2
    /\ \E i \in 1..2 :
           /\ Unwrap(dragging)[i][2] # NOTHING
           /\ Some(Unwrap(dragging)[i][2]) # IMGet(tiles, Unwrap(dragging)[i][1])

\* C8: a load that succeeds leaves the grid with exactly the positions and
\* values, and the spritesheet reference, that the last save to the loaded
\* path wrote, and leaves both history stacks empty.
C8_SaveLoadRoundTrip ==
    [][((\E pick \in Option(BagPaths), io \in LoadOutcomes : LoadWorkspace(pick, io))
            /\ ret' = "ok")
        => /\ IsSome(workspace_path')
           /\ IsSome(saved[Unwrap(workspace_path')])
           /\ AsMap(tiles') = Unwrap(saved[Unwrap(workspace_path')]).tiles
           /\ sprite_sheet' = Some(Unwrap(saved[Unwrap(workspace_path')]).sprite_sheet)
           /\ undos' = << >>
           /\ redos' = << >>]_vars

\* C8 witness: a document with a painted cell of a sheet sliced in two rows
\* has been loaded.
C8_Witness ==
    /\ last = "load"
    /\ ret = "ok"
    /\ tiles # << >>
    /\ Unwrap(sprite_sheet).rows = 2

\* C9: a load that returns an error leaves the grid, the spritesheet
\* reference, the workspace path and both history stacks as they were.
C9_FailedLoadChangesNothing ==
    [][((\E pick \in Option(BagPaths), io \in LoadOutcomes : LoadWorkspace(pick, io))
            /\ ret' # "ok")
        => UNCHANGED << tiles, sprite_sheet, workspace_path, undos, redos >>]_vars

\* C9 witness: a truncated file has failed to decode while the grid and the
\* undo stack held something.
C9_Witness ==
    /\ ret = "decode"
    /\ effects = {"dialog", "open", "read"}
    /\ tiles # << >>
    /\ undos # << >>

\* C10: a save with no spritesheet chosen returns the no-spritesheet error
\* without opening the save dialog or creating a file, and changes nothing
\* of the editor or of the disk.
C10_SaveWithoutSpritesheet ==
    [][(sprite_sheet = None
            /\ \E pick \in Option(BagPaths), io \in SaveOutcomes, cut \in Cuts :
                   SaveWorkspace(pick, io, cut))
        => /\ ret' = "no spritesheet chosen yre"
           /\ effects' = {}
           /\ UNCHANGED << sprite_sheet, workspace_path, selected_tile, dragging,
                           tiles, undos, redos, disk >>]_vars

\* C10 witness: Ctrl+S was pressed with no spritesheet chosen.
C10_Witness ==
    /\ ret = "no spritesheet chosen yre"
    /\ sprite_sheet = None
    /\ disk = [p \in BagPaths |-> None]

\* C11: a save that returns an error leaves the grid, both history stacks,
\* the spritesheet reference and the remembered workspace path as they were.
C11_FailedSaveChangesNothing ==
    [][(FrameOf("Ctrl+S") /\ ret' # "ok")
        => UNCHANGED << tiles, undos, redos, sprite_sheet, workspace_path >>]_vars

\* C12: Ctrl+Z with an empty undo stack, and Ctrl+Shift+Z with an empty redo
\* stack, leave the grid, both stacks and the diff of the stroke in progress
\* as they were and do not panic.
C12_EmptyStackNoOp ==
    [][((FrameOf("Ctrl+Z") /\ undos = << >>) \/ (FrameOf("Ctrl+Shift+Z") /\ redos = << >>))
        => UNCHANGED << tiles, undos, redos, dragging, panicked >>]_vars

\* C12 witness: Ctrl+Z has just been pressed during the first stroke; both
\* stacks are empty, so the undo stack was empty when the chord was handled.
C12_Witness ==
    /\ input = << "Ctrl+Z" >>
    /\ undos = << >>
    /\ redos = << >>
    /\ IsSome(dragging)
    /\ tiles # << >>
    /\ ~panicked

\* C13: a frame in which the primary-button drag is released while a stroke
\* is in progress pushes the stroke's diff as the newest entry of the undo
\* stack and leaves no stroke in progress.
C13_ReleaseCommits ==
    [][(FrameOf("pointer") /\ input'[3] = "released" /\ IsSome(dragging))
        => /\ dragging' = None
           /\ undos' # << >>
           /\ undos'[Len(undos')] = Unwrap(dragging)]_vars

\* C14: the "clear" button on a non-empty grid empties the grid and pushes
\* the whole grid, pair by pair, as the newest entry of the undo stack; the
\* undo that follows it leaves the grid with exactly the keys and values it
\* had before the reset.
C14_ResetIsUndoable ==
    /\ [][(FrameOf("clear") /\ tiles # << >>)
            => /\ tiles' = << >>
               /\ undos' = HistoryAdd(undos, tiles)
               /\ undos'[Len(undos')] = tiles]_vars
    /\ [][(last = "reset" /\ last' = "undo") => AsMap(tiles') = snap]_vars

\* C14 witness: a grid of two cells was cleared and the undo of the reset has
\* put both cells back; the stroke that painted them is still on the undo stack.
C14_Witness ==
    /\ input = << "Ctrl+Z" >>
    /\ last = "undo"
    /\ Len(tiles) = 2
    /\ DOMAIN snap = {}
    /\ Len(undos) = 1
    /\ Len(redos) = 1
    /\ Len(redos[1]) = 2
    /\ \A i \in 1..2 : redos[1][i][2] = NOTHING

\* the positions of a diff
Positions(diff) == {diff[i][1] : i \in 1..Len(diff)}

\* diff holds, for exactly the positions of of, the value grid has there,
\* the sentinel where grid has none
Complements(diff, of, grid) ==
    /\ Len(diff) = Len(of)
    /\ Positions(diff) = Positions(of)
    /\ \A i \in 1..Len(diff) : diff[i][2] = OrNothing(IMGet(grid, diff[i][1]))

\* C15: Ctrl+Z with a non-empty undo stack removes the newest undo entry and
\* nothing else from the undo stack, and the newest redo entry afterwards has
\* the positions of the removed diff, each with the value the grid had there
\* just before, the sentinel where it had none; Ctrl+Shift+Z does the same
\* with the stacks swapped.
C15_ComplementaryDiff ==
    /\ [][(FrameOf("Ctrl+Z") /\ undos # << >>)
            => /\ undos' = SubSeq(undos, 1, Len(undos) - 1)
               /\ redos' # << >>
               /\ Complements(redos'[Len(redos')], undos[Len(undos)], tiles)]_vars
    /\ [][(FrameOf("Ctrl+Shift+Z") /\ redos # << >>)
            => /\ redos' = SubSeq(redos, 1, Len(redos) - 1)
               /\ undos' # << >>
               /\ Complements(undos'[Len(undos')], redos[Len(redos)], tiles)]_vars

\* C15 witness: a stroke over two cells was undone and redone; the redo has
\* pushed a diff with the sentinel at both positions onto the undo stack.
C15_Witness ==
    /\ input = << "Ctrl+Shift+Z" >>
    /\ last = "redo"
    /\ redos = << >>
    /\ Len(undos) = 1
    /\ Len(undos[1]) = 2
    /\ \A i \in 1..2 : undos[1][i][2] = NOTHING
    /\ Len(tiles) = 2

\* C16: add on a history of 5 diffs drops the oldest and keeps the other 4 in
\* order below the new one; add on a shorter history keeps them all below
\* the new one; pop returns the newest diff, the one added last of those
\* still held, and removes it alone.
C16_FifoEvictionLifoAccess ==
    /\ [][(input' # << >> /\ input'[1] = "add")
            => undos' = (IF Len(undos) = Capacity THEN Tail(undos) ELSE undos)
                            \o << input'[2] >>]_vars
    /\ [][(input' # << >> /\ input'[1] = "pop" /\ undos # << >>)
            => /\ input'[2] = Some(undos[Len(undos)])
               /\ undos' = SubSeq(undos, 1, Len(undos) - 1)]_vars

\* C16 witness: a diff was added to a history of 5 whose two oldest diffs
\* differ; the oldest is gone and the other 4 are below the new one.
C16_Witness ==
    /\ input # << >>
    /\ input[1] = "add"
    /\ Len(input[3]) = Capacity
    /\ input[3][1] # input[3][2]
    /\ Len(undos) = Capacity
    /\ SubSeq(undos, 1, Capacity - 1) = Tail(input[3])
    /\ undos[Capacity] = input[2]

\* C17: while no tile is selected, a frame of pointer input over or off the
\* plot (hover, drag start, drag movement, drag release) leaves the grid,
\* the diff of the stroke in progress and both history stacks as they were,
\* and does not panic.
C17_NoTilePassthrough ==
    [][(FrameOf("pointer") /\ selected_tile = None)
        => UNCHANGED << tiles, dragging, undos, redos, panicked >>]_vars

\* C17 witness: with a spritesheet chosen and no tile selected, a drag was
\* started over a cell and no stroke is in progress.
C17_Witness ==
    /\ input # << >>
    /\ input[1] = "pointer"
    /\ IsSome(input[2])
    /\ input[3] = "started"
    /\ selected_tile = None
    /\ IsSome(sprite_sheet)
    /\ dragging = None
    /\ tiles = << >>

\* C18: in the frame that commits a stroke, the release pushing its diff on
\* the undo stack, the redo stack is empty, whatever undo and redo chords
\* were handled between the touches of the stroke.
C18_RedoEmptyAtCommit ==
    [][(FrameOf("pointer") /\ input'[3] = "released" /\ IsSome(dragging) /\ dragging' = None)
        => redos' = << >>]_vars

\* C19: the undo stack and the redo stack together hold at most 5 diffs.
C19_StacksTogetherAtMostCapacity ==
    Len(undos) + Len(redos) <= Capacity

\* C20: a frame that handles a primary-button drag release over the plot
\* with a tile selected finds a stroke in progress and does not panic.
C20_ReleaseFindsStroke ==
    [][(FrameOf("pointer") /\ input'[3] = "released" /\ IsSome(input'[2])
            /\ IsSome(selected_tile))
        => /\ IsSome(dragging)
           /\ ~panicked']_vars

\* C21: whatever strokes, undos, redos, resets and loads of saved documents
\* have been performed, no cell of the grid holds the sentinel; it occurs as
\* a value of diffs only.
C21_NoSentinelInGrid ==
    \A i \in 1..Len(tiles) : tiles[i][2] # NOTHING

\* C21 witness: two strokes were painted on empty cells, and the second was
\* undone and redone; both cells are in the grid and both diffs on the undo
\* stack hold the sentinel.
C21_Witness ==
    /\ last = "redo"
    /\ Len(tiles) = 2
    /\ Len(undos) = 2
    /\ \A k \in 1..2 : \A i \in 1..Len(undos[k]) : undos[k][i][2] = NOTHING
    /\ \A i \in 1..2 : tiles[i][2] # NOTHING

====
